---- MODULE Spec2Model ----
(***************************************************************************)
(* Model of the shared entity filter groups state                          *)
(* (useProvideEntityFilters, buildStates, buildMatchingEntities).          *)
(*                                                                         *)
(* Strings that take part in key building are sequences of one-character   *)
(* strings, so that `${filterGroupId}.${filterId}` and key.startsWith()   *)
(* are computed as the code computes them.                                 *)
(* A filter function Entity -> boolean is the set of entities it accepts.  *)
(***************************************************************************)
EXTENDS Integers, Sequences, FiniteSets, TLC

\* ---------------------------------------------------------------- bounds
\* longest list of filter ids passed to register / setGroupSelectedFilters
MaxIds == 2
\* longest entity list the catalog api resolves with
MaxEntities == 3

\* ------------------------------------------------------------ input sets
\* Entities of the spec's scenario: 1 and 3 carry tag "a", 2 carries tag "b"
Entity == {1, 2, 3}

\* filter group ids, one a dotted extension of the other
GroupIds == { <<"a">>, <<"a", ".", "b">> }

\* filter ids
FilterIds == { <<"x">>, <<"b", ".", "x">> }

\* the filter groups callers construct (filter id -> accepted entities)
FilterGroupDefs ==
  { ( <<"x">> :> {1, 3} @@ <<"b", ".", "x">> :> {2} ),
    ( <<"x">> :> {2, 3} ) }

\* errors the catalog api can reject with
Errors == { "NotFound", "Timeout" }

\* all sequences over S of length at most n
SeqsUpTo(S, n) == UNION { [1..k -> S] : k \in 0..n }

\* argument lists of filter ids (duplicates allowed)
IdLists == SeqsUpTo(FilterIds, MaxIds)

\* the catalog's entities in the order the api returns them: 3, 1, 2, 3, ...
CatalogList(n) == [ i \in 1..n |-> ((i + 1) % 3) + 1 ]

\* entity lists the load can resolve with
EntityLists == { CatalogList(n) : n \in 0..MaxEntities }

Range(s) == { s[i] : i \in 1..Len(s) }

\* --------------------------------------------------------- pure functions
\* `${filterGroupId}.${filterId}`
SelectionKey(filterGroupId, filterId) == filterGroupId \o <<".">> \o filterId

\* key.startsWith(prefix)
StartsWith(key, prefix) ==
  /\ Len(key) >= Len(prefix)
  /\ SubSeq(key, 1, Len(prefix)) = prefix

\* the selected filter functions of one group (groupFilters)
GroupFilters(filterGroupId, filterGroup, selectedFilterKeys) ==
  { filterGroup[filterId] :
      filterId \in { f \in DOMAIN filterGroup :
                       SelectionKey(filterGroupId, f) \in selectedFilterKeys } }

\* a variant that also keeps the entry of a group with no selected filter
AllFiltersKeepingEmpty(filterGroups, selectedFilterKeys, exclude) ==
  { GroupFilters(g, filterGroups[g], selectedFilterKeys) :
      g \in (DOMAIN filterGroups) \ exclude }

\* one entry per non-excluded group with at least one selected filter
AllFilters(filterGroups, selectedFilterKeys, exclude) ==
  { gf \in { GroupFilters(g, filterGroups[g], selectedFilterKeys) :
               g \in (DOMAIN filterGroups) \ exclude } : gf # {} }

\* a variant that asks an entity to pass every selected filter of a group
buildMatchingEntitiesAllOf(filterGroups, selectedFilterKeys, async, exclude) ==
  LET allFilters == AllFilters(filterGroups, selectedFilterKeys, exclude)
  IN IF async.hasValue
       THEN SelectSeq(async.value,
              LAMBDA entity :
                \A groupFilters \in allFilters :
                  \A fn \in groupFilters : entity \in fn)
       ELSE << >>

\* a variant that collects the matching entities last to first
buildMatchingEntitiesReversed(filterGroups, selectedFilterKeys, async, exclude) ==
  LET allFilters == AllFilters(filterGroups, selectedFilterKeys, exclude)
      kept == IF async.hasValue
                THEN SelectSeq(async.value,
                       LAMBDA entity :
                         \A groupFilters \in allFilters :
                           \E fn \in groupFilters : entity \in fn)
                ELSE << >>
  IN [ i \in 1..Len(kept) |-> kept[Len(kept) + 1 - i] ]

\* exclude is the optional excludeFilterGroupId: {} when omitted, {g} otherwise
buildMatchingEntities(filterGroups, selectedFilterKeys, async, exclude) ==
  LET allFilters == AllFilters(filterGroups, selectedFilterKeys, exclude)
  IN IF async.hasValue
       THEN SelectSeq(async.value,
              LAMBDA entity :
                \A groupFilters \in allFilters :
                  \E fn \in groupFilters : entity \in fn)
       ELSE << >>

\* the state of one group once entities are there
ReadyState(filterGroups, selectedFilterKeys, async, filterGroupId) ==
  LET otherMatchingEntities ==
        buildMatchingEntities(filterGroups, selectedFilterKeys, async, {filterGroupId})
      filterGroup == filterGroups[filterGroupId]
  IN [ type  |-> "ready",
       state |-> [ filters |->
                     [ filterId \in DOMAIN filterGroup |->
                         [ isSelected |->
                             SelectionKey(filterGroupId, filterId) \in selectedFilterKeys,
                           matchCount |->
                             Len(SelectSeq(otherMatchingEntities,
                                   LAMBDA entity : entity \in filterGroup[filterId])) ] ] ] ]

\* a variant that looks at the entities before it looks at the error
buildStatesEntitiesFirst(filterGroups, selectedFilterKeys, async) ==
  IF async.hasValue
    THEN [ g \in DOMAIN filterGroups |->
             ReadyState(filterGroups, selectedFilterKeys, async, g) ]
    ELSE IF async.hasError
      THEN [ g \in DOMAIN filterGroups |-> [ type |-> "error", error |-> async.error ] ]
      ELSE [ g \in DOMAIN filterGroups |-> [ type |-> "loading" ] ]

buildStates(filterGroups, selectedFilterKeys, async) ==
  IF async.hasError
    THEN [ g \in DOMAIN filterGroups |-> [ type |-> "error", error |-> async.error ] ]
    ELSE IF ~async.hasValue
      THEN [ g \in DOMAIN filterGroups |-> [ type |-> "loading" ] ]
      ELSE [ g \in DOMAIN filterGroups |->
               ReadyState(filterGroups, selectedFilterKeys, async, g) ]

\* ------------------------------------------------------------------ state
VARIABLES
  asyncState,          \* useAsync(() => catalogApi.getEntities())
  filterGroups,        \* useState: the registry
  filterGroupStates,   \* useState: the per-group state map
  selectedFilterKeys,  \* useRef: the selection set
  matchingEntities,    \* useRef: the matching entities
  closure,             \* what the current callbacks captured at the last render
  lastOp,              \* the last store operation or load event that ran
  mounted,             \* CatalogFilter is mounted
  currentFilter        \* CatalogFilter's useState('owned')

vars == << asyncState, filterGroups, filterGroupStates, selectedFilterKeys,
           matchingEntities, closure, lastOp, mounted, currentFilter >>

\* the state of the CatalogFilter component
consumer == << mounted, currentFilter >>

Pending == [ hasValue |-> FALSE, value |-> << >>, hasError |-> FALSE, error |-> "" ]
Resolved(list) == [ hasValue |-> TRUE, value |-> list, hasError |-> FALSE, error |-> "" ]
Rejected(e) == [ hasValue |-> FALSE, value |-> << >>, hasError |-> TRUE, error |-> e ]

NoGroups == [ g \in {} |-> {} ]

Init ==
  /\ asyncState = Pending
  /\ filterGroups = NoGroups
  /\ filterGroupStates = NoGroups
  /\ selectedFilterKeys = {}
  /\ matchingEntities = << >>
  /\ closure = [ filterGroups |-> NoGroups, async |-> Pending ]
  /\ lastOp = [ op |-> "init", groupId |-> << >> ]
  /\ mounted = FALSE
  /\ currentFilter = <<"owned">>

\* ---------------------------------------------------------------- updates
\* setFilterGroups updater of register
WithGroup(oldGroups, filterGroupId, filterGroup) ==
  [ g \in (DOMAIN oldGroups) \cup {filterGroupId} |->
      IF g = filterGroupId THEN filterGroup ELSE oldGroups[g] ]

\* setFilterGroups updater of unregister
WithoutGroup(oldGroups, filterGroupId) ==
  [ g \in (DOMAIN oldGroups) \ {filterGroupId} |-> oldGroups[g] ]

\* a variant that drops the group's earlier keys before adding the initial ones
RegisterKeysReplacing(keys, filterGroupId, initialSelectedFilterIds) ==
  IF Len(initialSelectedFilterIds) # 0
    THEN { key \in keys : ~StartsWith(key, filterGroupId \o <<".">>) }
           \cup { SelectionKey(filterGroupId, id) :
                    id \in Range(initialSelectedFilterIds) }
    ELSE keys

\* selectedFilterKeys.current after register
RegisterKeys(keys, filterGroupId, initialSelectedFilterIds) ==
  IF Len(initialSelectedFilterIds) # 0
    THEN keys \cup { SelectionKey(filterGroupId, id) :
                       id \in Range(initialSelectedFilterIds) }
    ELSE keys

\* a variant that keeps the group's earlier keys
SelectedKeysKeepingOld(keys, filterGroupId, filters) ==
  keys \cup { SelectionKey(filterGroupId, id) : id \in Range(filters) }

\* selectedFilterKeys.current after setGroupSelectedFilters
SelectedKeys(keys, filterGroupId, filters) ==
  { key \in keys : ~StartsWith(key, filterGroupId \o <<".">>) }
    \cup { SelectionKey(filterGroupId, id) : id \in Range(filters) }

\* a variant that filters the entities with the selection as it was before
\* the operation
RecomputeMatchingFromOldSelection ==
  /\ filterGroupStates' =
       buildStates(closure.filterGroups, selectedFilterKeys', closure.async)
  /\ matchingEntities' =
       buildMatchingEntities(closure.filterGroups, selectedFilterKeys,
                             closure.async, {})

\* the two trailing statements every operation ends with: the state map and
\* the matching entities are built from the registry and the load result that
\* the callback captured, and from the selection as it is now
Recompute ==
  /\ filterGroupStates' =
       buildStates(closure.filterGroups, selectedFilterKeys', closure.async)
  /\ matchingEntities' =
       buildMatchingEntities(closure.filterGroups, selectedFilterKeys',
                             closure.async, {})

\* ---------------------------------------------------------------- actions
register(filterGroupId, filterGroup, initialSelectedFilterIds) ==
  /\ lastOp' = [ op |-> "register", groupId |-> filterGroupId ]
  /\ filterGroups' = WithGroup(filterGroups, filterGroupId, filterGroup)
  /\ selectedFilterKeys' =
       RegisterKeys(selectedFilterKeys, filterGroupId, initialSelectedFilterIds)
  /\ Recompute
  /\ UNCHANGED << asyncState, closure >>

\* the updater that deletes the group's entry is queued first and the value
\* built from the captured registry is queued after it, so the value wins
unregister(filterGroupId) ==
  /\ lastOp' = [ op |-> "unregister", groupId |-> filterGroupId ]
  /\ filterGroups' = WithoutGroup(filterGroups, filterGroupId)
  /\ selectedFilterKeys' = selectedFilterKeys
  /\ Recompute
  /\ UNCHANGED << asyncState, closure >>

setGroupSelectedFilters(filterGroupId, filters) ==
  /\ lastOp' = [ op |-> "setGroupSelectedFilters", groupId |-> filterGroupId ]
  /\ selectedFilterKeys' = SelectedKeys(selectedFilterKeys, filterGroupId, filters)
  /\ Recompute
  /\ UNCHANGED << asyncState, filterGroups, closure >>

\* React re-renders the provider after a batch of operations: the callbacks
\* are rebuilt and capture the registry as it is now
Render ==
  /\ closure.filterGroups # filterGroups
  /\ closure' = [ filterGroups |-> filterGroups, async |-> asyncState ]
  /\ UNCHANGED << asyncState, filterGroups, filterGroupStates,
                  selectedFilterKeys, matchingEntities, lastOp, consumer >>

\* a variant in which the callbacks keep the load result they captured first
LoadDoneKeepingCallbacks(result) ==
  /\ asyncState = Pending
  /\ closure.filterGroups = filterGroups
  /\ asyncState' = result
  /\ lastOp' = [ op |-> "load", groupId |-> << >> ]
  /\ UNCHANGED << filterGroups, filterGroupStates, selectedFilterKeys,
                  matchingEntities, closure, consumer >>

\* the load settles between batches; useAsync sets its state and the
\* provider re-renders at once
LoadDone(result) ==
  /\ asyncState = Pending
  /\ closure.filterGroups = filterGroups
  /\ asyncState' = result
  /\ closure' = [ filterGroups |-> filterGroups, async |-> result ]
  /\ lastOp' = [ op |-> "load", groupId |-> << >> ]
  /\ UNCHANGED << filterGroups, filterGroupStates, selectedFilterKeys,
                  matchingEntities, consumer >>

Register ==
  \E g \in GroupIds, fg \in FilterGroupDefs, ids \in IdLists :
    register(g, fg, ids) /\ UNCHANGED consumer

Unregister ==
  \E g \in GroupIds : unregister(g) /\ UNCHANGED consumer

SetGroupSelectedFilters ==
  \E g \in GroupIds, ids \in IdLists :
    setGroupSelectedFilters(g, ids) /\ UNCHANGED consumer

LoadValue ==
  \E list \in EntityLists : LoadDone(Resolved(list))

LoadError ==
  \E e \in Errors : LoadDone(Rejected(e))

Next ==
  \/ Register
  \/ Unregister
  \/ SetGroupSelectedFilters
  \/ Render
  \/ LoadValue
  \/ LoadError

Spec == Init /\ [][Next]_vars

\* ------------------------------------------------- the CatalogFilter consumer
\* ids without a dot are written as one token
SidebarId == <<"primary-sidebar">>

SidebarFilterIds == { <<"owned">>, <<"starred">>, <<"all">> }

\* the filter group useFilter builds from entityFilters
SidebarGroup ==
  ( <<"owned">> :> {1} @@ <<"starred">> :> {2, 3} @@ <<"all">> :> {1, 2, 3} )

\* the component mounts: useState('owned'), and useEntityFilterGroup registers
\* the group with the initial selection ['owned']
Mount ==
  /\ ~mounted
  /\ register(SidebarId, SidebarGroup, << <<"owned">> >>)
  /\ mounted' = TRUE
  /\ currentFilter' = <<"owned">>

\* a menu item is clicked: setCurrentFilter(filterId); setSelectedFilters([filterId])
SetCurrentFilter ==
  \E filterId \in SidebarFilterIds :
    /\ mounted
    /\ setGroupSelectedFilters(SidebarId, << filterId >>)
    /\ currentFilter' = filterId
    /\ UNCHANGED mounted

\* the component unmounts: useEntityFilterGroup unregisters the group
Unmount ==
  /\ mounted
  /\ unregister(SidebarId)
  /\ mounted' = FALSE
  /\ UNCHANGED currentFilter

SidebarNext ==
  \/ Mount
  \/ SetCurrentFilter
  \/ Unmount
  \/ Render
  \/ LoadValue
  \/ LoadError

SidebarSpec == Init /\ [][SidebarNext]_vars

\* ----------------------------------------------------------------- claims
Operations == { "register", "unregister", "setGroupSelectedFilters" }

GroupPrefix(g) == g \o <<".">>

\* the filters of group g of registry reg that sel selects
SelectedIn(reg, sel, g) ==
  { f \in DOMAIN reg[g] : SelectionKey(g, f) \in sel }

\* C1: after register, unregister and setGroupSelectedFilters the stored state
\* map and matching entities are those computed from the registry and the
\* selection as they are after the operation, and the current load result
AggregateIsFresh ==
  lastOp.op \in Operations =>
    /\ filterGroupStates =
         buildStates(filterGroups, selectedFilterKeys, asyncState)
    /\ matchingEntities =
         buildMatchingEntities(filterGroups, selectedFilterKeys, asyncState, {})

\* C2: once anything has been recomputed, the group ids of the state map are
\* exactly the group ids of the registry
StateKeysAreRegistryKeys ==
  lastOp.op # "init" => DOMAIN filterGroupStates = DOMAIN filterGroups

\* C3: after unregister(g), g is neither in the registry nor in the state map
UnregisterRemovesGroup ==
  lastOp.op = "unregister" =>
    /\ lastOp.groupId \notin DOMAIN filterGroups
    /\ lastOp.groupId \notin DOMAIN filterGroupStates

\* C4: when the load settles, no registered group that has a state is left
\* loading: it is ready on a value and error on a failure
LoadSettlesStates ==
  lastOp.op = "load" =>
    \A g \in (DOMAIN filterGroups) \cap (DOMAIN filterGroupStates) :
      filterGroupStates[g].type = (IF asyncState.hasError THEN "error" ELSE "ready")

\* C5: once the load has failed, every entry of the state map is the error
\* state carrying that error
ErrorDominance ==
  asyncState.hasError =>
    \A g \in DOMAIN filterGroupStates :
      filterGroupStates[g] = [ type |-> "error", error |-> asyncState.error ]

\* C6: unregister(g) keeps the selection set, so that registering g again
\* without initial ids, with a group that has a filter f whose key was kept,
\* reports f as selected and lets f constrain the matching entities
UnregisterKeepsSelectionForReRegister ==
  [][ /\ \A g \in GroupIds :
           unregister(g) => selectedFilterKeys' = selectedFilterKeys
      /\ \A g \in GroupIds, fg \in FilterGroupDefs :
           ( /\ lastOp = [ op |-> "unregister", groupId |-> g ]
             /\ asyncState.hasValue
             /\ register(g, fg, << >>) )
           => \A f \in DOMAIN fg :
                SelectionKey(g, f) \in selectedFilterKeys =>
                  /\ g \in DOMAIN filterGroupStates'
                  /\ filterGroupStates'[g].type = "ready"
                  /\ f \in DOMAIN filterGroupStates'[g].state.filters
                  /\ filterGroupStates'[g].state.filters[f].isSelected
                  /\ matchingEntities' =
                       buildMatchingEntities(filterGroups', selectedFilterKeys',
                                             asyncState', {})
    ]_vars

\* C7: setGroupSelectedFilters(g, ids) leaves exactly the keys g.id, id in
\* ids, among the keys that start with "g." (a step that ends an operation on
\* g either shows that selection or is not a setGroupSelectedFilters(g, ids)
\* step)
SetReplacesGroupSelection ==
  [][ \A g \in GroupIds :
        lastOp' = [ op |-> "setGroupSelectedFilters", groupId |-> g ] =>
          \A ids \in IdLists :
            \/ { key \in selectedFilterKeys' : StartsWith(key, GroupPrefix(g)) }
                 = { SelectionKey(g, ids[i]) : i \in 1..Len(ids) }
            \/ ~setGroupSelectedFilters(g, ids)
    ]_vars

\* a selection was set for "a.b" while keys of "a" outside "a.b." stay selected
SetReplacesGroupSelectionWitness ==
  /\ lastOp = [ op |-> "setGroupSelectedFilters", groupId |-> <<"a", ".", "b">> ]
  /\ \E key \in selectedFilterKeys : StartsWith(key, GroupPrefix(<<"a", ".", "b">>))
  /\ \E key \in selectedFilterKeys : ~StartsWith(key, GroupPrefix(<<"a", ".", "b">>))

\* C8: register(g, group, initialIds) only adds the keys g.id, id in
\* initialIds, to the selection set; with no initial ids it leaves it as it is
\* (a step that ends an operation on g either shows that selection or is not
\* a register(g, group, initialIds) step)
RegisterIsAdditive ==
  [][ \A g \in GroupIds :
        lastOp' = [ op |-> "register", groupId |-> g ] =>
          \A ids \in IdLists :
            \/ selectedFilterKeys' =
                 selectedFilterKeys
                   \cup { SelectionKey(g, ids[i]) : i \in 1..Len(ids) }
            \/ \A fg \in FilterGroupDefs : ~register(g, fg, ids)
    ]_vars

\* "a" was registered last, and a key of "a" is selected next to a key that
\* only "a.b" can have
RegisterIsAdditiveWitness ==
  /\ lastOp = [ op |-> "register", groupId |-> <<"a">> ]
  /\ SelectionKey(<<"a">>, <<"x">>) \in selectedFilterKeys
  /\ SelectionKey(<<"a", ".", "b">>, <<"b", ".", "x">>) \in selectedFilterKeys

\* C9: an entity is in the matching entities exactly when it passes, for every
\* registered group that is not excluded and has a selected filter, at least
\* one of that group's selected filters
OrWithinAndAcross ==
  asyncState.hasValue =>
    \A ex \in {{}} \cup { {g} : g \in GroupIds } :
      LET result ==
            buildMatchingEntities(filterGroups, selectedFilterKeys, asyncState, ex)
      IN \A i \in 1..Len(asyncState.value) :
           LET e == asyncState.value[i]
           IN (e \in Range(result)) <=>
                \A g \in (DOMAIN filterGroups) \ ex :
                  SelectedIn(filterGroups, selectedFilterKeys, g) # {} =>
                    \E f \in SelectedIn(filterGroups, selectedFilterKeys, g) :
                      e \in filterGroups[g][f]

\* both filters of "a.b" and the one filter of "a" are selected: of 3, 1, 2
\* the entities passing (x or b.x) and x are 3 and 2
OrWithinAndAcrossWitness ==
  /\ asyncState.hasValue
  /\ asyncState.value = <<3, 1, 2>>
  /\ DOMAIN filterGroups = GroupIds
  /\ filterGroups[<<"a", ".", "b">>] =
       ( <<"x">> :> {1, 3} @@ <<"b", ".", "x">> :> {2} )
  /\ filterGroups[<<"a">>] = ( <<"x">> :> {2, 3} )
  /\ selectedFilterKeys =
       { <<"a", ".", "x">>, <<"a", ".", "b", ".", "x">>,
         <<"a", ".", "b", ".", "b", ".", "x">> }
  /\ buildMatchingEntities(filterGroups, selectedFilterKeys, asyncState, {})
       = <<3, 2>>

\* the match counts buildStates reports for group g
MatchCounts(reg, sel, async, g) ==
  LET filters == buildStates(reg, sel, async)[g].state.filters
  IN [ f \in DOMAIN filters |-> filters[f].matchCount ]

\* C10: the match count of each filter F of a ready group G is the number of
\* entities, matching with G excluded, that pass F; so G's match counts are
\* the same for selection sets that differ only in keys of G
SelfExclusion ==
  asyncState.hasValue =>
    \A g \in DOMAIN filterGroups :
      /\ \A f \in DOMAIN filterGroups[g] :
           LET context ==
                 buildMatchingEntities(filterGroups, selectedFilterKeys,
                                       asyncState, {g})
           IN MatchCounts(filterGroups, selectedFilterKeys, asyncState, g)[f]
                = Cardinality({ i \in 1..Len(context) :
                                  context[i] \in filterGroups[g][f] })
      /\ \A other \in SUBSET { SelectionKey(g, f) : f \in DOMAIN filterGroups[g] } :
           LET own == { SelectionKey(g, f) : f \in DOMAIN filterGroups[g] }
               sel2 == (selectedFilterKeys \ own) \cup other
           IN MatchCounts(filterGroups, sel2, asyncState, g)
                = MatchCounts(filterGroups, selectedFilterKeys, asyncState, g)

\* C11: with entities loaded, once a key g.x is selected and g is unregistered,
\* registering g with a group that has no filter x gives g a ready state whose
\* filter entries are exactly the filters of the new group, and the matching
\* entities are those of the registry as it is then, which g.x does not narrow
StaleSelectionIsHarmless ==
  [][ \A g \in GroupIds, fg \in FilterGroupDefs :
        ( /\ lastOp = [ op |-> "unregister", groupId |-> g ]
          /\ asyncState.hasValue
          /\ \E x \in FilterIds \ DOMAIN fg :
               SelectionKey(g, x) \in selectedFilterKeys
          /\ register(g, fg, << >>) )
        => /\ g \in DOMAIN filterGroupStates'
           /\ filterGroupStates'[g].type = "ready"
           /\ DOMAIN filterGroupStates'[g].state.filters = DOMAIN fg
           /\ matchingEntities' =
                buildMatchingEntities(filterGroups', selectedFilterKeys',
                                      asyncState', {})
    ]_vars

\* C12: unregister(g) of a group id that is not registered leaves the
\* registry, the selection set, the state map and the matching entities as
\* they are
UnregisterAbsentIsNoOp ==
  [][ \A g \in GroupIds :
        (g \notin DOMAIN filterGroups /\ unregister(g))
        => UNCHANGED << filterGroups, selectedFilterKeys, filterGroupStates,
                        matchingEntities >>
    ]_vars

\* C13: when no registered group has a selected filter, the matching entities
\* are the whole entity list in its order
EmptySelectionVacuity ==
  ( /\ asyncState.hasValue
    /\ \A g \in DOMAIN filterGroups :
         SelectedIn(filterGroups, selectedFilterKeys, g) = {} )
  => buildMatchingEntities(filterGroups, selectedFilterKeys, asyncState, {})
       = asyncState.value

\* a group is registered, the only selected key names none of its filters,
\* and all three entities match
EmptySelectionVacuityWitness ==
  /\ asyncState.hasValue
  /\ asyncState.value = <<3, 1, 2>>
  /\ DOMAIN filterGroups = { <<"a">> }
  /\ filterGroups[<<"a">>] = ( <<"x">> :> {2, 3} )
  /\ selectedFilterKeys = { <<"a", ".", "b", ".", "x">> }
  /\ matchingEntities = <<3, 1, 2>>

\* r is s with some elements left out
RECURSIVE IsSubsequence(_, _)
IsSubsequence(r, s) ==
  IF r = << >> THEN TRUE
  ELSE IF s = << >> THEN FALSE
  ELSE IF Head(r) = Head(s) THEN IsSubsequence(Tail(r), Tail(s))
  ELSE IsSubsequence(r, Tail(s))

\* C14: the matching entities are a subsequence of the entity list in its
\* order, and the empty sequence while there is no entity list
MatchingIsOrderedSubsequence ==
  \A ex \in {{}} \cup { {g} : g \in GroupIds } :
    LET result ==
          buildMatchingEntities(filterGroups, selectedFilterKeys, asyncState, ex)
    IN IF asyncState.hasValue
         THEN IsSubsequence(result, asyncState.value)
         ELSE result = << >>

\* two of the three entities match, the middle one is left out
MatchingIsOrderedSubsequenceWitness ==
  /\ asyncState.hasValue
  /\ asyncState.value = <<3, 1, 2>>
  /\ <<"a">> \in DOMAIN filterGroups
  /\ buildMatchingEntities(filterGroups, selectedFilterKeys, asyncState, {})
       = <<3, 2>>
  /\ buildMatchingEntities(filterGroups, selectedFilterKeys, asyncState,
                           { <<"a">> }) = <<3, 1, 2>>

\* C15: buildStates gives every registered group the same variant: error with
\* the error when there is an error, entities or not; else loading when there
\* are no entities; else ready
GroupStatesAreUniform ==
  LET states == buildStates(filterGroups, selectedFilterKeys, asyncState)
  IN /\ DOMAIN states = DOMAIN filterGroups
     /\ \A g \in DOMAIN filterGroups :
          IF asyncState.hasError
            THEN states[g] = [ type |-> "error", error |-> asyncState.error ]
            ELSE IF ~asyncState.hasValue
              THEN states[g] = [ type |-> "loading" ]
              ELSE states[g].type = "ready"
     /\ \A e \in Errors :
          LET both == [ asyncState EXCEPT !.hasError = TRUE, !.error = e ]
              failed == buildStates(filterGroups, selectedFilterKeys, both)
          IN /\ DOMAIN failed = DOMAIN filterGroups
             /\ \A g \in DOMAIN filterGroups :
                  failed[g] = [ type |-> "error", error |-> e ]

\* two groups are registered and entities are there, so that an error next to
\* them has to win for both groups
GroupStatesAreUniformWitness ==
  /\ DOMAIN filterGroups = GroupIds
  /\ asyncState.hasValue
  /\ Len(asyncState.value) = 3
  /\ selectedFilterKeys # {}
  /\ \A g \in GroupIds :
       buildStates(filterGroups, selectedFilterKeys, asyncState)[g].type = "ready"

\* the filters of h that sel selects, whether or not h is registered
SelectedIds(sel, h) == { f \in FilterIds : SelectionKey(h, f) \in sel }

\* C16: setGroupSelectedFilters(g, ids) leaves the selected filters of every
\* other group id h as they were, also when g is a dotted prefix of h
SetTouchesOnlyItsGroup ==
  [][ \A g \in GroupIds, ids \in IdLists :
        setGroupSelectedFilters(g, ids) =>
          \A h \in GroupIds \ {g} :
            SelectedIds(selectedFilterKeys', h) = SelectedIds(selectedFilterKeys, h)
    ]_vars

\* a step in which one of the three operations ran
OperationStep == lastOp'.op \in Operations /\ closure' = closure

\* the filters a ready state reports as selected
ReportedSelected(state) ==
  { f \in DOMAIN state.state.filters : state.state.filters[f].isSelected }

LoadResultIsTerminal ==
  [][ /\ (\E g \in DOMAIN filterGroupStates :
            filterGroupStates[g].type \in { "ready", "error" })
         => asyncState # Pending
      /\ asyncState # Pending => asyncState' = asyncState
      /\ (asyncState # Pending /\ OperationStep)
         => \A g \in DOMAIN filterGroupStates' :
              filterGroupStates'[g].type # "loading"
    ]_vars

\* after the load an operation ran and left a ready state
LoadResultIsTerminalWitness ==
  /\ lastOp.op \in Operations
  /\ asyncState.hasValue
  /\ \E g \in DOMAIN filterGroups \cap DOMAIN filterGroupStates :
       filterGroupStates[g].type = "ready"

\* C19: while CatalogFilter is mounted, the selected filters of
\* 'primary-sidebar' are exactly the current filter
SidebarIsSingleSelect ==
  mounted =>
    { f \in SidebarFilterIds : SelectionKey(SidebarId, f) \in selectedFilterKeys }
      = { currentFilter }

====
